---- MODULE Spec2Model ----
(***************************************************************************)
(* BusTub buffer pool manager (src/buffer/buffer_pool_manager.cpp).        *)
(*                                                                         *)
(* Every public operation takes latch_ on entry and releases it on every   *)
(* return path, so each operation is one atomic step of the model; any     *)
(* interleaving of threads is a sequence of such steps.                    *)
(*                                                                         *)
(* The replacer (ClockReplacer) and the disk manager are collaborators     *)
(* whose code is not part of the file; they are modelled by their          *)
(* contract: the replacer is the set of frames it holds as evictable and   *)
(* Victim may return any of them; the disk is a map from page id to bytes. *)
(***************************************************************************)
EXTENDS Integers, Sequences, FiniteSets, TLC

\* ------------------------------------------------------------------ bounds
PoolSize == 2      \* pool_size_ : number of frames
MaxPage  == 3      \* page ids are 0 .. MaxPage-1
MaxPin   == 2      \* cap on pin_count_ reached by repeated fetch hits
MaxVer   == 1      \* callers write versions 1 .. MaxVer of a page's bytes
MaxOps   == 7      \* operations per run under Spec

INVALID_PAGE_ID == -1

Frames  == 0 .. (PoolSize - 1)
PageIds == 0 .. (MaxPage - 1)
\* pages 0 .. InitPages-1 already exist on disk when the pool is constructed
InitPages == MaxPage - 1

\* Page bytes: <<owner page, version>>; Zero is ResetMemory()'s all-zero buffer.
Zero == <<INVALID_PAGE_ID, 0>>
Bytes(p, v) == <<p, v>>
NoBytes == <<INVALID_PAGE_ID, -1>>

VARIABLES
  pages,         \* pages_[f] : [page_id, pin_count, is_dirty, data]
  page_table,    \* page_table_ : page id -> frame id (a finite map)
  free_list,     \* free_list_ : sequence of frame ids
  replacer,      \* frames the replacer holds as evictable
  disk,          \* disk manager: page id -> bytes stored
  next_page_id,  \* disk manager: next id AllocatePage returns
  owed,          \* per page: bytes a caller wrote and declared dirty by Unpin(p, true)
  last,          \* observation of the last operation: arguments, result, I/O issued
  unpinned,      \* some Unpin has succeeded since construction
  nops,          \* operations performed so far
  latch,         \* latch_ : 0 when free, else the thread that holds it
  thr,           \* per thread: its FetchPage call in progress and its result
  scen           \* the scripted run: its position and the pages it names

vars == <<pages, page_table, free_list, replacer, disk, next_page_id, owed, last,
          unpinned, nops, latch, thr, scen>>
core == <<pages, page_table, free_list, replacer, disk, next_page_id>>

\* threads that may call into the pool at the same time
Threads == 1 .. MaxPin

\* a thread that has not called yet
NoCall == [pc |-> "idle", pid |-> INVALID_PAGE_ID, fresh |-> FALSE,
           ok |-> FALSE, frame |-> -1, reads |-> 0]

\* the scripted run before its first call
NoScen == [pc |-> "fill", a |-> INVALID_PAGE_ID, c |-> INVALID_PAGE_ID,
           abytes |-> NoBytes]

\* ------------------------------------------------------- std::unordered_map
PTFind(pt, p) == p \in DOMAIN pt
PTErase(pt, p) == [q \in (DOMAIN pt) \ {p} |-> pt[q]]
\* insert() leaves an existing key's mapping untouched
PTInsert(pt, p, f) ==
  IF p \in DOMAIN pt THEN pt
  ELSE [q \in (DOMAIN pt) \cup {p} |-> IF q = p THEN f ELSE pt[q]]

\* ------------------------------------------------------------------ replacer
ReplacerPin(r, x) == r \ {x}
ReplacerUnpin(r, f) == r \cup {f}
\* Victim: the frames it may return; the chosen one leaves the replacer
ReplacerVictims(r) == r

\* --------------------------------------------------------------- observation
\* What the last operation was called with, what it returned and what it
\* asked of the disk manager.
Obs(op, pid, ok) ==
  [op |-> op, pid |-> pid, ok |-> ok,
   frame |-> -1,          \* frame returned or acted on
   src |-> "none",        \* path taken through the operation
   prevpin |-> 0,         \* pin_count_ of that frame before the operation
   prevpid |-> INVALID_PAGE_ID,  \* page id that frame held before
   writes |-> {},         \* WritePage calls issued
   reads |-> 0,           \* ReadPage calls issued
   deallocs |-> {},       \* DeallocatePage calls issued
   want |-> NoBytes,      \* Fetch: the page's content before the call
   again |-> (op = "FlushAll" /\ last.op = "FlushAll")]  \* FlushAll right after FlushAll

\* one WritePage call: target page id, source frame, page id that frame holds
WriteRec(p, f, pg) ==
  [pid |-> p, frame |-> f, fpid |-> pg[f].page_id, data |-> pg[f].data]

\* the content of page p: in memory if a frame holds it, else on disk
Content(p) ==
  IF \E f \in Frames : pages[f].page_id = p
    THEN pages[CHOOSE f \in Frames : pages[f].page_id = p].data
    ELSE disk[p]

\* ------------------------------------------------ FlushPageImplWithoutLock
\* variant that clears is_dirty_ without calling WritePage
FlushNoWrite(pg, pt, dk, page_id) ==
  IF ~PTFind(pt, page_id)
    THEN [pages |-> pg, disk |-> dk, ret |-> FALSE, writes |-> {}]
    ELSE LET frameId == pt[page_id] IN
         [pages  |-> [pg EXCEPT ![frameId].is_dirty = FALSE],
          disk   |-> dk,
          ret    |-> TRUE,
          writes |-> {}]

\* variant that writes the page back but leaves is_dirty_ set
FlushNoClear(pg, pt, dk, page_id) ==
  IF ~PTFind(pt, page_id)
    THEN [pages |-> pg, disk |-> dk, ret |-> FALSE, writes |-> {}]
    ELSE LET frameId == pt[page_id] IN
         IF pg[frameId].is_dirty
           THEN [pages  |-> pg,
                 disk   |-> [dk EXCEPT ![page_id] = pg[frameId].data],
                 ret    |-> TRUE,
                 writes |-> {WriteRec(page_id, frameId, pg)}]
           ELSE [pages |-> pg, disk |-> dk, ret |-> TRUE, writes |-> {}]

\* result: the frames, the disk, the return value and the WritePage calls issued
FlushPageImplWithoutLock(pg, pt, dk, page_id) ==
  IF ~PTFind(pt, page_id)
    THEN [pages |-> pg, disk |-> dk, ret |-> FALSE, writes |-> {}]
    ELSE LET frameId == pt[page_id] IN
         IF pg[frameId].is_dirty
           THEN [pages  |-> [pg EXCEPT ![frameId].is_dirty = FALSE],
                 disk   |-> [dk EXCEPT ![page_id] = pg[frameId].data],
                 ret    |-> TRUE,
                 writes |-> {WriteRec(page_id, frameId, pg)}]
           ELSE [pages |-> pg, disk |-> dk, ret |-> TRUE, writes |-> {}]

NoFlush(pg, dk) == [pages |-> pg, disk |-> dk, ret |-> FALSE, writes |-> {}]

Init ==
  /\ pages = [f \in Frames |->
                [page_id |-> INVALID_PAGE_ID, pin_count |-> 0,
                 is_dirty |-> FALSE, data |-> Zero]]
  /\ page_table = [q \in {} |-> 0]
  /\ free_list = [i \in 1 .. PoolSize |-> i - 1]
  /\ replacer = {}
  /\ disk = [p \in PageIds |-> IF p < InitPages THEN Bytes(p, 0) ELSE Zero]
  /\ next_page_id = InitPages
  /\ owed = [p \in PageIds |-> NoBytes]
  /\ last = [op |-> "Init", pid |-> INVALID_PAGE_ID, ok |-> TRUE, frame |-> -1,
             src |-> "none", prevpin |-> 0, prevpid |-> INVALID_PAGE_ID,
             writes |-> {}, reads |-> 0, deallocs |-> {}, want |-> NoBytes,
             again |-> FALSE]
  /\ unpinned = FALSE
  /\ nops = 0
  /\ latch = 0
  /\ thr = [t \in Threads |-> NoCall]
  /\ scen = NoScen

\* ------------------------------------------------------------ FetchPageImpl
\* variant of the hit path that calls replacer_->Unpin where the code calls Pin
FetchHitUnpins(page_id, frameId) ==
  /\ pages[frameId].pin_count < MaxPin
  /\ pages' = [pages EXCEPT ![frameId].pin_count = @ + 1]
  /\ replacer' = ReplacerUnpin(replacer, page_id)
  /\ last' = [Obs("Fetch", page_id, TRUE) EXCEPT
                !.frame = frameId, !.src = "hit",
                !.prevpin = pages[frameId].pin_count,
                !.prevpid = pages[frameId].page_id,
                !.want = Content(page_id)]
  /\ UNCHANGED <<page_table, free_list, disk, next_page_id, owed>>

\* lines 53-59: the page is in the page table
FetchHit(page_id, frameId) ==
  /\ pages[frameId].pin_count < MaxPin
  /\ pages' = [pages EXCEPT ![frameId].pin_count = @ + 1]
  /\ replacer' = ReplacerPin(replacer, page_id)
  /\ last' = [Obs("Fetch", page_id, TRUE) EXCEPT
                !.frame = frameId, !.src = "hit",
                !.prevpin = pages[frameId].pin_count,
                !.prevpid = pages[frameId].page_id,
                !.want = Content(page_id)]
  /\ UNCHANGED <<page_table, free_list, disk, next_page_id, owed>>

\* lines 72-88: the miss path once frame frameId has been obtained
FetchInstall(page_id, frameId, fl, rp, src) ==
  LET victimDirty    == pages[frameId].is_dirty
      pageIdToDelete == pages[frameId].page_id
      fr == IF victimDirty
              THEN FlushPageImplWithoutLock(pages, page_table, disk, pageIdToDelete)
              ELSE NoFlush(pages, disk)
      pt1 == IF victimDirty THEN PTErase(page_table, pageIdToDelete) ELSE page_table
  IN /\ pages' = [fr.pages EXCEPT ![frameId] =
                     [page_id |-> page_id, pin_count |-> 1,
                      is_dirty |-> FALSE, data |-> fr.disk[page_id]]]
     /\ page_table' = PTInsert(pt1, page_id, frameId)
     /\ disk' = fr.disk
     /\ free_list' = fl
     /\ replacer' = rp
     /\ last' = [Obs("Fetch", page_id, TRUE) EXCEPT
                   !.frame = frameId, !.src = src,
                   !.prevpin = pages[frameId].pin_count,
                   !.prevpid = pages[frameId].page_id,
                   !.writes = fr.writes, !.reads = 1,
                   !.want = Content(page_id)]
     /\ UNCHANGED <<next_page_id, owed>>

\* lines 67-70: no free frame and Victim fails
FetchFail(page_id) ==
  /\ last' = Obs("Fetch", page_id, FALSE)
  /\ UNCHANGED <<core, owed>>

FetchPageImpl(page_id) ==
  IF PTFind(page_table, page_id)
    THEN FetchHit(page_id, page_table[page_id])
    ELSE IF free_list # <<>>
      THEN FetchInstall(page_id, Head(free_list), Tail(free_list), replacer, "free")
      ELSE IF ReplacerVictims(replacer) = {}
        THEN FetchFail(page_id)
        ELSE \E v \in ReplacerVictims(replacer) :
               FetchInstall(page_id, v, free_list, replacer \ {v}, "victim")

\* ------------------------------------------------------------ UnpinPageImpl
UnpinPageImpl(page_id, is_dirty) ==
  IF ~PTFind(page_table, page_id)
    THEN /\ last' = [Obs("Unpin", page_id, FALSE) EXCEPT !.src = "notfound"]
         /\ UNCHANGED <<core, owed>>
    ELSE LET frameId == page_table[page_id] IN
         IF pages[frameId].pin_count = 0
           THEN /\ last' = [Obs("Unpin", page_id, FALSE) EXCEPT
                              !.frame = frameId, !.src = "zero",
                              !.prevpid = pages[frameId].page_id]
                /\ UNCHANGED <<core, owed>>
           ELSE /\ pages' = [pages EXCEPT
                               ![frameId].pin_count = @ - 1,
                               ![frameId].is_dirty = @ \/ is_dirty]
                /\ replacer' = IF pages[frameId].pin_count - 1 = 0
                                 THEN ReplacerUnpin(replacer, frameId)
                                 ELSE replacer
                /\ owed' = IF is_dirty
                             THEN [owed EXCEPT ![page_id] = pages[frameId].data]
                             ELSE owed
                /\ last' = [Obs("Unpin", page_id, TRUE) EXCEPT
                              !.frame = frameId, !.src = "found",
                              !.prevpin = pages[frameId].pin_count,
                              !.prevpid = pages[frameId].page_id]
                /\ UNCHANGED <<page_table, free_list, disk, next_page_id>>

\* ------------------------------------------------------------ FlushPageImpl
FlushPageImpl(page_id) ==
  LET fr == FlushPageImplWithoutLock(pages, page_table, disk, page_id) IN
  /\ pages' = fr.pages
  /\ disk' = fr.disk
  /\ last' = [Obs("Flush", page_id, fr.ret) EXCEPT
                !.frame = IF fr.ret THEN page_table[page_id] ELSE -1,
                !.writes = fr.writes]
  /\ UNCHANGED <<page_table, free_list, replacer, next_page_id, owed>>

\* -------------------------------------------------------------- NewPageImpl
\* lines 175-183: install the freshly allocated page in frame freeFrameId
NewInstall(freeFrameId, fr, pt1, fl, rp, src) ==
  LET page_id == next_page_id IN
  /\ next_page_id' = next_page_id + 1
  /\ pages' = [fr.pages EXCEPT ![freeFrameId] =
                 [page_id |-> page_id, pin_count |-> 1,
                  is_dirty |-> fr.pages[freeFrameId].is_dirty, data |-> Zero]]
  /\ page_table' = PTInsert(pt1, page_id, freeFrameId)
  /\ disk' = fr.disk
  /\ free_list' = fl
  /\ replacer' = rp
  /\ last' = [Obs("New", page_id, TRUE) EXCEPT
                !.frame = freeFrameId, !.src = src,
                !.prevpin = pages[freeFrameId].pin_count,
                !.prevpid = pages[freeFrameId].page_id,
                !.writes = fr.writes]
  /\ UNCHANGED owed

\* lines 164-170: a victim's page is flushed if dirty and leaves the page table
NewEvict(v) ==
  LET pageIdToDelete == pages[v].page_id
      fr == IF pages[v].is_dirty
              THEN FlushPageImplWithoutLock(pages, page_table, disk, pageIdToDelete)
              ELSE NoFlush(pages, disk)
  IN NewInstall(v, fr, PTErase(page_table, pageIdToDelete),
                free_list, replacer \ {v}, "victim")

\* variant that calls AllocatePage before it looks for a frame
NewFailAllocates ==
  /\ last' = Obs("New", INVALID_PAGE_ID, FALSE)
  /\ next_page_id' = next_page_id + 1
  /\ UNCHANGED <<pages, page_table, free_list, replacer, disk, owed>>

\* lines 159-163: no free frame and Victim fails
NewFail ==
  /\ last' = Obs("New", INVALID_PAGE_ID, FALSE)
  /\ UNCHANGED <<core, owed>>

NewPageImpl ==
  /\ next_page_id < MaxPage
  /\ IF Len(free_list) > 0
       THEN NewInstall(Head(free_list), NoFlush(pages, disk), page_table,
                       Tail(free_list), replacer, "free")
       ELSE IF ReplacerVictims(replacer) = {}
         THEN NewFail
         ELSE \E v \in ReplacerVictims(replacer) : NewEvict(v)

\* ----------------------------------------------------------- DeletePageImpl
\* lines 208-222: P can be deleted
DeleteFrame(page_id, frameId) ==
  /\ page_table' = PTErase(page_table, page_id)
  /\ pages' = [pages EXCEPT ![frameId] =
                 [page_id |-> INVALID_PAGE_ID, pin_count |-> 0,
                  is_dirty |-> FALSE, data |-> Zero]]
  /\ free_list' = Append(free_list, frameId)
  /\ owed' = [owed EXCEPT ![page_id] = NoBytes]
  /\ last' = [Obs("Delete", page_id, TRUE) EXCEPT
                !.frame = frameId, !.src = "deleted",
                !.prevpin = pages[frameId].pin_count,
                !.prevpid = pages[frameId].page_id,
                !.deallocs = {page_id}]
  /\ UNCHANGED <<replacer, disk, next_page_id>>

DeletePageImpl(page_id) ==
  IF ~PTFind(page_table, page_id)
    THEN /\ last' = [Obs("Delete", page_id, TRUE) EXCEPT !.src = "notfound"]
         /\ UNCHANGED <<core, owed>>
    ELSE LET frameId == page_table[page_id] IN
         IF pages[frameId].pin_count > 0
           THEN /\ last' = [Obs("Delete", page_id, FALSE) EXCEPT
                              !.frame = frameId, !.src = "busy",
                              !.prevpin = pages[frameId].pin_count,
                              !.prevpid = pages[frameId].page_id]
                /\ UNCHANGED <<core, owed>>
           ELSE DeleteFrame(page_id, frameId)

\* -------------------------------------------------------- FlushAllPagesImpl
RECURSIVE FlushAllFrom(_, _, _, _)
\* the loop of lines 229-236 from index i on, carrying frames, disk and writes
FlushAllFrom(i, pg, dk, ws) ==
  IF i >= PoolSize
    THEN [pages |-> pg, disk |-> dk, writes |-> ws]
    ELSE LET page_id == pg[i].page_id IN
         IF page_id = INVALID_PAGE_ID
           THEN FlushAllFrom(i + 1, pg, dk, ws)
           ELSE LET fr == FlushPageImplWithoutLock(pg, page_table, dk, page_id)
                IN FlushAllFrom(i + 1, fr.pages, fr.disk, ws \cup fr.writes)

FlushAllPagesImpl ==
  LET fr == FlushAllFrom(0, pages, disk, {}) IN
  /\ pages' = fr.pages
  /\ disk' = fr.disk
  /\ last' = [Obs("FlushAll", INVALID_PAGE_ID, TRUE) EXCEPT !.writes = fr.writes]
  /\ UNCHANGED <<page_table, free_list, replacer, next_page_id, owed>>

\* ------------------------------------------------------------------ callers
\* A caller that holds a pin on page_id (obtained from Fetch/NewPage) writes
\* version v of the page's bytes into the frame the pool handed out for it.
WriteData(page_id, v) ==
  /\ PTFind(page_table, page_id)
  /\ pages[page_table[page_id]].pin_count > 0
  /\ pages[page_table[page_id]].data # Bytes(page_id, v)
  /\ pages' = [pages EXCEPT ![page_table[page_id]].data = Bytes(page_id, v)]
  /\ owed' = [owed EXCEPT ![page_id] = NoBytes]
  /\ last' = [Obs("Write", page_id, TRUE) EXCEPT !.frame = page_table[page_id]]
  /\ UNCHANGED <<page_table, free_list, replacer, disk, next_page_id>>

\* page ids a caller may name: those the disk manager has allocated
Allocated == 0 .. (next_page_id - 1)

Fetch    == \E p \in Allocated : FetchPageImpl(p)
Unpin    == \E p \in Allocated, d \in BOOLEAN : UnpinPageImpl(p, d)
Flush    == \E p \in Allocated : FlushPageImpl(p)
NewPage  == NewPageImpl
Delete   == \E p \in Allocated : DeletePageImpl(p)
FlushAll == FlushAllPagesImpl
Write    == \E p \in Allocated, v \in 1 .. MaxVer : WriteData(p, v)

\* the bookkeeping of a run: operations are counted, a successful Unpin is noted
Count ==
  /\ nops' = nops + 1
  /\ unpinned' = (unpinned \/ (last'.op = "Unpin" /\ last'.ok))
  /\ UNCHANGED <<latch, thr, scen>>

\* one operation, by any thread, in a run of at most MaxOps operations
Next ==
  \/ nops < MaxOps /\ Fetch /\ Count
  \/ nops < MaxOps /\ Unpin /\ Count
  \/ nops < MaxOps /\ Flush /\ Count
  \/ nops < MaxOps /\ NewPage /\ Count
  \/ nops < MaxOps /\ Delete /\ Count
  \/ nops < MaxOps /\ FlushAll /\ Count
  \/ nops < MaxOps /\ Write /\ Count

Spec == Init /\ [][Next]_vars

\* ------------------------------------------------------- concurrent callers
\* Threads call FetchPage at the same time, after a few calls made one at a
\* time have brought the pool into some state.
MaxSetup == PoolSize + 3

\* no thread has called yet
AllIdle == \A t \in Threads : thr[t].pc = "idle"

\* latch_ is free
LatchFree == latch = 0

\* thread t calls FetchPage(p); fresh records that no frame holds p at the call
TCall(t, p) ==
  /\ thr[t].pc = "idle"
  /\ thr' = [thr EXCEPT ![t] = [NoCall EXCEPT
                !.pc = "called", !.pid = p,
                !.fresh = (\A f \in Frames : pages[f].page_id # p)]]
  /\ UNCHANGED <<core, owed, last, unpinned, nops, latch, scen>>

\* line 47: latch_.lock()
TLock(t) ==
  /\ thr[t].pc = "called"
  /\ LatchFree
  /\ latch' = t
  /\ thr' = [thr EXCEPT ![t].pc = "locked"]
  /\ UNCHANGED <<core, owed, last, unpinned, nops, scen>>

\* lines 49-88: the body of FetchPageImpl, run under the latch, then unlock
TBody(t) ==
  /\ thr[t].pc = "locked"
  /\ latch = t
  /\ FetchPageImpl(thr[t].pid)
  /\ latch' = 0
  /\ thr' = [thr EXCEPT ![t].pc = "done", ![t].ok = last'.ok,
                        ![t].frame = last'.frame, ![t].reads = last'.reads]
  /\ UNCHANGED <<unpinned, nops, scen>>

NextConc ==
  \/ nops < MaxSetup /\ AllIdle /\ Fetch /\ Count
  \/ nops < MaxSetup /\ AllIdle /\ Unpin /\ Count
  \/ nops < MaxSetup /\ AllIdle /\ NewPage /\ Count
  \/ \E t \in Threads, p \in Allocated : TCall(t, p)
  \/ \E t \in Threads : TLock(t)
  \/ \E t \in Threads : TBody(t)

SpecConc == Init /\ [][NextConc]_vars

\* ------------------------------------------------------- the scripted run
\* A pool over a disk file that already holds every page id: PoolSize pages
\* are fetched (a is the first), a Fetch of one more page c is refused, a is
\* unpinned dirty, c is fetched again, and then a is fetched again, either
\* at once or after another page has been unpinned.  The callers may write
\* the pages they hold pinned at any time.
InitScen ==
  /\ pages = [f \in Frames |->
                [page_id |-> INVALID_PAGE_ID, pin_count |-> 0,
                 is_dirty |-> FALSE, data |-> Zero]]
  /\ page_table = [q \in {} |-> 0]
  /\ free_list = [i \in 1 .. PoolSize |-> i - 1]
  /\ replacer = {}
  /\ disk = [p \in PageIds |-> Bytes(p, 0)]
  /\ next_page_id = MaxPage
  /\ owed = [p \in PageIds |-> NoBytes]
  /\ last = [op |-> "Init", pid |-> INVALID_PAGE_ID, ok |-> TRUE, frame |-> -1,
             src |-> "none", prevpin |-> 0, prevpid |-> INVALID_PAGE_ID,
             writes |-> {}, reads |-> 0, deallocs |-> {}, want |-> NoBytes,
             again |-> FALSE]
  /\ unpinned = FALSE
  /\ nops = 0
  /\ latch = 0
  /\ thr = [t \in Threads |-> NoCall]
  /\ scen = NoScen

\* one call of the run: it is counted, and the run moves to position pc
ScStep(pc) ==
  /\ nops' = nops + 1
  /\ unpinned' = (unpinned \/ (last'.op = "Unpin" /\ last'.ok))
  /\ scen'.pc = pc
  /\ UNCHANGED <<latch, thr>>

\* Fetch(A), Fetch(B), ...: PoolSize distinct pages
ScFill ==
  /\ scen.pc = "fill"
  /\ \E p \in Allocated \ DOMAIN page_table :
       /\ FetchPageImpl(p)
       /\ scen' = [scen EXCEPT
                     !.a = IF scen.a = INVALID_PAGE_ID THEN p ELSE @,
                     !.pc = IF nops + 1 = PoolSize THEN "full" ELSE "fill"]
  /\ ScStep(scen'.pc)

\* Fetch(C) on the full pool
ScRefused ==
  /\ scen.pc = "full"
  /\ \E p \in Allocated \ DOMAIN page_table :
       /\ FetchPageImpl(p)
       /\ scen' = [scen EXCEPT !.c = p, !.pc = "refused"]
  /\ ScStep("refused")

\* Unpin(A, dirty = true)
ScUnpinA ==
  /\ scen.pc = "refused"
  /\ UnpinPageImpl(scen.a, TRUE)
  /\ scen' = [scen EXCEPT !.abytes = pages[page_table[scen.a]].data,
                          !.pc = "unpinnedA"]
  /\ ScStep("unpinnedA")

\* the second Fetch(C)
ScFetchC ==
  /\ scen.pc = "unpinnedA"
  /\ FetchPageImpl(scen.c)
  /\ scen' = [scen EXCEPT !.pc = "gotC"]
  /\ ScStep("gotC")

\* Fetch(A) right after the second Fetch(C)
ScRetryA ==
  /\ scen.pc = "gotC"
  /\ FetchPageImpl(scen.a)
  /\ scen' = [scen EXCEPT !.pc = "retryA"]
  /\ ScStep("retryA")

\* a holder of some pinned page unpins it
ScRelease ==
  /\ scen.pc \in {"gotC", "retryA"}
  /\ \E p \in DOMAIN page_table, d \in BOOLEAN :
       /\ pages[page_table[p]].pin_count > 0
       /\ UnpinPageImpl(p, d)
  /\ scen' = [scen EXCEPT !.pc = "released"]
  /\ ScStep("released")

\* Fetch(A) after that Unpin
ScFetchA ==
  /\ scen.pc = "released"
  /\ FetchPageImpl(scen.a)
  /\ scen' = [scen EXCEPT !.pc = "gotA"]
  /\ ScStep("gotA")

\* a caller writes a page it holds pinned
ScWrite ==
  /\ Write
  /\ UNCHANGED <<unpinned, nops, latch, thr, scen>>

NextScen ==
  \/ ScFill
  \/ ScRefused
  \/ ScUnpinA
  \/ ScFetchC
  \/ ScRetryA
  \/ ScRelease
  \/ ScFetchA
  \/ ScWrite

SpecScen == InitScen /\ [][NextScen]_vars

\* ===================================================================== claims

\* the last operation took a frame from the free list or from the replacer
FetchMissOrNew == last.op \in {"Fetch", "New"} /\ last.src \in {"free", "victim"}

\* C1: a frame whose pin_count is above 0 is never obtained as a replacement
\* frame (from the free list or from the replacer's Victim) by Fetch or NewPage
\* and re-assigned to another page id.
C1_PinnedFrameNeverReplaced ==
  FetchMissOrNew => last.prevpin = 0

\* C2: the page table is a one-to-one correspondence with the resident frames:
\* every entry p -> f has pages[f].page_id = p (so no two page ids share a
\* frame), and every frame with a valid page id has its own entry; after a
\* Fetch miss or NewPage reuses a frame that held page q, q has no entry.
C2_PageTableMatchesFrames ==
  /\ \A p \in DOMAIN page_table : pages[page_table[p]].page_id = p
  /\ \A f \in Frames :
       pages[f].page_id # INVALID_PAGE_ID =>
         /\ pages[f].page_id \in DOMAIN page_table
         /\ page_table[pages[f].page_id] = f
  /\ (FetchMissOrNew /\ last.prevpid # INVALID_PAGE_ID /\ last.prevpid # last.pid)
       => last.prevpid \notin DOMAIN page_table

\* C3: every successful Fetch(p), hit or miss, returns a frame whose page_id
\* is p and whose bytes are p's current content (the in-memory content if p
\* was resident, otherwise the bytes stored on disk for p).
C3_FetchReturnsThePage ==
  (last.op = "Fetch" /\ last.ok) =>
     /\ pages[last.frame].page_id = last.pid
     /\ pages[last.frame].data = last.want

\* C4: bytes written into p's frame under a pin and declared by Unpin(p, true)
\* survive the reuse of p's frame for another page: the next successful
\* Fetch(p) returns exactly those bytes.  (Versions from 1 on are bytes a
\* caller wrote; the frame was reused when the Fetch
\* had to bring p in, or when the frame it returns holds another page.)
C4_DirtyBytesSurviveEviction ==
  (/\ last.op = "Fetch" /\ last.ok
   /\ owed[last.pid] # NoBytes /\ owed[last.pid][2] >= 1
   /\ \/ last.src # "hit"
      \/ pages[last.frame].page_id \notin {last.pid, INVALID_PAGE_ID})
  => pages[last.frame].data = owed[last.pid]

\* C5: every WritePage(p, bytes) the manager issues takes its bytes from a
\* frame whose page_id is p at that moment, so the disk copy of a page never
\* receives another page's bytes.
C5_WritePageWritesOwnPage ==
  /\ \A w \in last.writes : w.fpid = w.pid
  /\ \A p \in PageIds : disk[p] = Zero \/ disk[p][1] = p

\* every frame holds a page of its own under a pin, and nothing was ever unpinned
PoolFullyPinned ==
  /\ ~unpinned
  /\ \A f \in Frames : pages[f].page_id # INVALID_PAGE_ID /\ pages[f].pin_count > 0
  /\ Cardinality({pages[f].page_id : f \in Frames}) = PoolSize

\* C6: once PoolSize distinct pages have been obtained by Fetch/NewPage and none
\* has been unpinned, every further Fetch of a non-resident page id and every
\* further NewPage fails and leaves the page table, the free list, the frames'
\* metadata and the replacer unchanged.
C6_ExhaustedPoolRejects ==
  [][ (/\ PoolFullyPinned
       /\ \/ last'.op = "New"
          \/ last'.op = "Fetch" /\ last'.pid \notin DOMAIN page_table)
      => (/\ ~last'.ok
          /\ UNCHANGED <<pages, page_table, free_list, replacer>>) ]_vars

\* C6 witness: a Fetch of a non-resident page was refused on a pool whose
\* frames are all pinned, with no Unpin so far.
C6_Witness ==
  /\ last.op = "Fetch" /\ ~last.ok
  /\ last.pid \notin DOMAIN page_table
  /\ PoolFullyPinned

\* C7: every frame's pin_count is >= 0; Unpin(p, d) on a resident page (one a
\* frame holds) whose pin_count is 0 fails and changes neither pin_count, the
\* dirty flag nor the replacer; Unpin on a page id that no frame holds fails
\* and changes nothing.
C7_UnpinRejectedAtZero ==
  /\ [](\A f \in Frames : pages[f].pin_count >= 0)
  /\ [][ (/\ last'.op = "Unpin"
          /\ \/ \A f \in Frames : pages[f].page_id # last'.pid
             \/ \E f \in Frames : /\ pages[f].page_id = last'.pid
                                  /\ pages[f].pin_count = 0)
         => (~last'.ok /\ UNCHANGED core) ]_vars

\* C8: DeletePage(p) on a resident page (one a frame holds) with pin_count > 0
\* fails and leaves the page table, the frames (pin_count, dirty flag, bytes),
\* the free list and the replacer unchanged and issues no DeallocatePage;
\* DeletePage on a page id that no frame holds succeeds and changes no
\* manager state.
C8_DeleteBusyOrAbsent ==
  [][ (last'.op = "Delete") =>
        /\ (\E f \in Frames : /\ pages[f].page_id = last'.pid
                              /\ pages[f].pin_count > 0)
             => (~last'.ok /\ last'.deallocs = {} /\ UNCHANGED core)
        /\ (\A f \in Frames : pages[f].page_id # last'.pid)
             => (last'.ok /\ last'.deallocs = {} /\ UNCHANGED core) ]_vars

InFreeList(f) == \E i \in 1 .. Len(free_list) : free_list[i] = f

\* C9: DeletePage on a resident page with pin_count 0 succeeds; afterwards the
\* page has no page-table entry, its frame has the invalid page id, pin_count 0
\* and dirty false, the frame is on the free list and no longer an eviction
\* candidate of the replacer, and DeallocatePage(p) was issued exactly once.
C9_DeleteReleasesFrame ==
  (last.op = "Delete" /\ last.src = "deleted") =>
     /\ last.ok
     /\ last.pid \notin DOMAIN page_table
     /\ pages[last.frame].page_id = INVALID_PAGE_ID
     /\ pages[last.frame].pin_count = 0
     /\ ~pages[last.frame].is_dirty
     /\ InFreeList(last.frame)
     /\ last.frame \notin replacer
     /\ last.deallocs = {last.pid}

\* C10: a FlushAll right after a FlushAll issues no WritePage; after any
\* FlushAll every frame holding a valid page id is clean; FlushAll changes no
\* pin_count, no page-table entry and no free-list entry.
C10_FlushAllIdempotent ==
  /\ [](last.op = "FlushAll" =>
          /\ \A f \in Frames :
               pages[f].page_id # INVALID_PAGE_ID => ~pages[f].is_dirty
          /\ last.again => last.writes = {})
  /\ [][ last'.op = "FlushAll" =>
           /\ \A f \in Frames : pages'[f].pin_count = pages[f].pin_count
           /\ UNCHANGED <<page_table, free_list>> ]_vars

\* C10 witness: a second FlushAll ran right after one that had dirty pages
\* resident (the frames are still resident and now clean).
C10_Witness ==
  /\ last.op = "FlushAll" /\ last.again
  /\ \E f \in Frames : pages[f].page_id # INVALID_PAGE_ID
                        /\ disk[pages[f].page_id] = pages[f].data
                        /\ pages[f].data[2] >= 1


\* C11: a NewPage that fails has not called AllocatePage: the disk manager
\* hands out one page id per successful NewPage and none otherwise, so the
\* number of ids allocated equals the number of successful NewPage calls.
C11_AllocateOnlyOnSuccess ==
  [][ next_page_id' = next_page_id +
        (IF last'.op = "New" /\ last'.ok THEN 1 ELSE 0) ]_vars

\* C11 witness: a NewPage failed with the free list empty and no victim, and
\* the id it would have received is still unallocated.
C11_Witness ==
  /\ last.op = "New" /\ ~last.ok
  /\ free_list = <<>> /\ replacer = {}
  /\ next_page_id < MaxPage

\* frames named by some page-table entry
TableFrames == {page_table[p] : p \in DOMAIN page_table}
\* frames on the free list
FreeFrames == {free_list[i] : i \in 1 .. Len(free_list)}

\* C12: the frames on the free list are disjoint from the frames that appear
\* as values in the page table.
C12_FreeListDisjointFromTable ==
  FreeFrames \cap TableFrames = {}

\* C13: the page table never has more entries than the pool has frames.
C13_TableAtMostPoolSize ==
  Cardinality(DOMAIN page_table) <= PoolSize


\* the run of C15 up to the second Fetch(C): the fetches that fill the pool
\* succeed with pin_count 1 each, Fetch(C) on the full pool fails and changes
\* nothing resident, Unpin(A, true) succeeds, and the second Fetch(C) succeeds
\* by evicting A with exactly one WritePage, of A's dirty bytes to page A,
\* after which C is resident with the bytes storage holds for it.
ScenUpToFetchC ==
  /\ (scen.pc \in {"fill", "full"} /\ last.op = "Fetch")
       => (/\ last.ok /\ last.src = "free"
           /\ pages[last.frame].page_id = last.pid
           /\ pages[last.frame].pin_count = 1)
  /\ (scen.pc = "full" /\ last.op = "Fetch")
       => \A f \in Frames : pages[f].pin_count = 1
  /\ (scen.pc = "refused" /\ last.op = "Fetch")
       => (/\ ~last.ok
           /\ \A f \in Frames : pages[f].pin_count = 1
           /\ scen.c \notin DOMAIN page_table)
  /\ (scen.pc = "unpinnedA" /\ last.op = "Unpin")
       => (/\ last.ok
           /\ pages[last.frame].page_id = scen.a
           /\ pages[last.frame].is_dirty
           /\ pages[last.frame].pin_count = 0)
  /\ (scen.pc = "gotC" /\ last.op = "Fetch")
       => (/\ last.ok /\ last.src = "victim"
           /\ last.prevpid = scen.a
           /\ last.writes = {[pid |-> scen.a, frame |-> last.frame,
                              fpid |-> scen.a, data |-> scen.abytes]}
           /\ disk[scen.a] = scen.abytes
           /\ \A f \in Frames : pages[f].page_id # scen.a
           /\ pages[last.frame].page_id = scen.c
           /\ pages[last.frame].data = disk[scen.c]
           /\ pages[last.frame].pin_count = 1)

\* C15 as stated: the run succeeds up to the second Fetch(C), and a Fetch(A)
\* issued right after it succeeds and reads A's just-flushed bytes.
C15_ScenarioAsStated ==
  /\ ScenUpToFetchC
  /\ (scen.pc = "retryA" /\ last.op = "Fetch")
       => (/\ last.ok /\ last.reads = 1
           /\ pages[last.frame].page_id = scen.a
           /\ pages[last.frame].data = scen.abytes)

\* C15 amended: the run succeeds up to the second Fetch(C); a Fetch(A) issued
\* right after it fails, every frame being pinned; once some page has been
\* unpinned, Fetch(A) succeeds with one ReadPage that brings A's just-flushed
\* bytes into the frame of the page that was unpinned.
C15_ScenarioAmended ==
  /\ ScenUpToFetchC
  /\ (scen.pc = "retryA" /\ last.op = "Fetch")
       => (/\ ~last.ok
           /\ \A f \in Frames : pages[f].pin_count > 0 /\ pages[f].page_id # scen.a)
  /\ (scen.pc = "gotA" /\ last.op = "Fetch")
       => (/\ last.ok /\ last.src = "victim" /\ last.reads = 1
           /\ pages[last.frame].page_id = scen.a
           /\ pages[last.frame].data = scen.abytes
           /\ pages[last.frame].pin_count = 1)

\* C15 witness: the run reached its end: A, written by its holder before
\* Unpin(A, true), was evicted for C and has been fetched again after another
\* page was unpinned.
C15_Witness ==
  /\ scen.pc = "gotA" /\ last.op = "Fetch" /\ last.ok
  /\ last.pid = scen.a
  /\ scen.abytes = Bytes(scen.a, 1)
  /\ \E f \in Frames : pages[f].page_id = scen.c /\ pages[f].pin_count = 1

\* C16: the dirty flag of a resident page p is sticky: while p stays in its
\* frame the flag goes from true to false only in a step that writes that
\* frame's bytes to page p of the storage, and a successful Unpin(p, d) leaves
\* the flag of the frame holding p equal to (old flag OR d).
C16_DirtySticky ==
  [][ /\ \A f \in Frames :
           LET p == pages[f].page_id IN
           (/\ p # INVALID_PAGE_ID
            /\ pages[f].is_dirty
            /\ pages'[f].page_id = p
            /\ ~pages'[f].is_dirty)
           => \E w \in last'.writes : w.pid = p /\ w.frame = f
      /\ \A p \in PageIds, d \in BOOLEAN, f \in Frames :
           (/\ pages[f].page_id = p
            /\ last'.op = "Unpin" /\ last'.ok /\ last'.pid = p
            /\ UnpinPageImpl(p, d))
           => pages'[f].is_dirty = (pages[f].is_dirty \/ d) ]_vars

\* C17: the replacer holds as evictable exactly the frames that hold a valid
\* page and have pin_count 0.
C17_ReplacerIsUnpinnedResident ==
  replacer = {f \in Frames : /\ pages[f].page_id # INVALID_PAGE_ID
                             /\ pages[f].pin_count = 0}

\* C18: Fetch of a non-resident page id and NewPage fail only when no frame is
\* available: the free list is empty and no frame holding a page has
\* pin_count 0.
C18_FailsOnlyWhenNoFrame ==
  [][ (/\ last'.op \in {"Fetch", "New"}
       /\ ~last'.ok)
      => (/\ free_list = <<>>
          /\ \A f \in Frames : ~(/\ pages[f].page_id # INVALID_PAGE_ID
                                 /\ pages[f].pin_count = 0)) ]_vars

\* C19: the pin_count of the frame holding page p counts the handles to p:
\* it is 1 when a successful Fetch(p)/NewPage makes p resident, each later
\* successful Fetch(p) adds 1, each successful Unpin(p) takes 1, and no
\* operation on another page id changes it.
C19_PinCountCountsHandles ==
  [][ \A f \in Frames :
        LET p == pages'[f].page_id
            delta == IF last'.op = "Fetch" /\ last'.ok /\ last'.pid = p THEN 1
                     ELSE IF last'.op = "Unpin" /\ last'.ok /\ last'.pid = p THEN -1
                     ELSE 0
        IN  p # INVALID_PAGE_ID =>
              IF pages[f].page_id = p
                THEN pages'[f].pin_count = pages[f].pin_count + delta
                ELSE /\ pages'[f].pin_count = 1
                     /\ last'.op \in {"Fetch", "New"}
                     /\ last'.ok /\ last'.pid = p ]_vars

\* C20: the free list holds only frame indices of the pool and holds each at
\* most once.
C20_FreeListNoDuplicates ==
  /\ \A i \in 1 .. Len(free_list) : free_list[i] \in Frames
  /\ \A i, j \in 1 .. Len(free_list) : i # j => free_list[i] # free_list[j]


\* C14: when two or more threads call Fetch(p) while no frame holds p, then
\* once all those calls have returned and at least one succeeded, all
\* successful calls returned the same frame, ReadPage(p) was issued exactly
\* once, and that frame's pin_count equals the number of successful calls.
C14_ConcurrentFetchConverges ==
  \A p \in PageIds :
    LET callers == {t \in Threads : thr[t].pc # "idle" /\ thr[t].pid = p}
        okay    == {t \in callers : thr[t].ok}
    IN  (/\ Cardinality(callers) >= 2
         /\ \A t \in callers : thr[t].pc = "done" /\ thr[t].fresh
         /\ okay # {})
        => (/\ \A t, u \in okay : thr[t].frame = thr[u].frame
            /\ Cardinality({t \in callers : thr[t].reads = 1}) = 1
            /\ \A t \in callers : thr[t].reads \in {0, 1}
            /\ \A t \in okay :
                 pages[thr[t].frame].pin_count = Cardinality(okay))

====
